---------------------------- MODULE Spec2Model ----------------------------
(***************************************************************************)
(* Model of the pool client of AleoXMiner:                                 *)
(*   - the wire codec of src/src/message.rs (ProverMessage, Encoder,       *)
(*     Decoder), on byte sequences;                                        *)
(*   - the connection manager of src/src/client.rs (Client, start).        *)
(*                                                                         *)
(* Bytes are naturals 0..255, a Rust String is the sequence of its bytes,  *)
(* Option<String> is <<>> (None) or <<s>> (Some(s)).  A message is a tuple *)
(* whose first element is the variant name.                                *)
(***************************************************************************)
EXTENDS Integers, Sequences, FiniteSets, TLC

(***************************************************************************)
(* Bytes and little-endian integers                                        *)
(***************************************************************************)
Byte == 0..255

RECURSIVE ToLE(_, _)
\* n.to_le_bytes() of a w-byte unsigned integer
ToLE(n, w) == IF w = 0 THEN <<>> ELSE <<n % 256>> \o ToLE(n \div 256, w - 1)

\* u32::from_le_bytes(b[..4]); TLC integers are 32-bit signed, so the inputs of
\* the model keep the top byte below 128
U32LE(b) == b[1] + 256 * b[2] + 65536 * b[3] + 16777216 * b[4]

Drop(s, n) == IF n >= Len(s) THEN <<>> ELSE SubSeq(s, n + 1, Len(s))
Take(s, n) == IF n >= Len(s) THEN s ELSE SubSeq(s, 1, n)

RECURSIVE AllZero(_)
AllZero(s) == IF s = <<>> THEN TRUE ELSE Head(s) = 0 /\ AllZero(Tail(s))

(***************************************************************************)
(* message.rs: Code and ProverMessage                                      *)
(***************************************************************************)
Codes == <<"Success", "InvalidProof", "Stale", "ProxyException">>

\* the ordinal of a Code variant (Success = 0, ...)
CodeOrdinal(c) == CHOOSE i \in 0..3 : Codes[i + 1] = c

\* the variant name as serde writes it in JSON
CodeName(c) ==
    CASE c = "Success"        -> <<83, 117, 99, 99, 101, 115, 115>>
      [] c = "InvalidProof"   -> <<73, 110, 118, 97, 108, 105, 100, 80, 114, 111, 111, 102>>
      [] c = "Stale"          -> <<83, 116, 97, 108, 101>>
      [] c = "ProxyException" -> <<80, 114, 111, 120, 121, 69, 120, 99, 101, 112, 116, 105, 111, 110>>

\* static VERSION: u16 = 1
VERSION == 1

\* ProverMessage::id
Id(m) ==
    CASE m[1] = "Authorize"       -> 0
      [] m[1] = "AuthorizeResult" -> 1
      [] m[1] = "Notify"          -> 2
      [] m[1] = "Submit"          -> 3
      [] m[1] = "SubmitResult"    -> 4
      [] m[1] = "ProofRate"       -> 6
      [] m[1] = "Canary"          -> 5

\* ProverMessage::name
Name(m) == m[1]

\* equality of two messages (variants first: the fields of different variants
\* have different types)
MsgEq(a, b) == a[1] = b[1] /\ a = b


(***************************************************************************)
(* Writers: bincode (fixed-width little-endian) and serde_json              *)
(***************************************************************************)
\* bincode::serialize_into of a String: u64 length, then the bytes
BincodeStr(s) == ToLE(Len(s), 8) \o s

\* bincode::serialize_into of a Code: the variant index as u32
BincodeCode(c) == ToLE(CodeOrdinal(c), 4)

RECURSIVE DecimalDigits(_)
DecimalDigits(n) == IF n < 10 THEN <<48 + n>> ELSE DecimalDigits(n \div 10) \o <<48 + (n % 10)>>

\* to_string() of an unsigned integer, also serde_json's rendering of one
Decimal(n) == DecimalDigits(n)

\* serde_json of a string; the strings of the model hold none of the bytes
\* JSON escapes (quote, backslash, control bytes)
JsonStr(s) == <<34>> \o s \o <<34>>

RECURSIVE JoinComma(_)
JoinComma(items) ==
    IF items = <<>> THEN <<>>
    ELSE IF Len(items) = 1 THEN items[1]
    ELSE items[1] \o <<44>> \o JoinComma(Tail(items))

\* serde_json of a tuple: a JSON array
JsonTuple(items) == <<91>> \o JoinComma(items) \o <<93>>

\* The block template, the nonce and the proof are values of snarkvm; the model
\* keeps each as a one-byte token, written as that byte by write_le and as a
\* one-character JSON string by serde_json.
BlobTokens == {88, 89}
BlobLE(t) == <<t>>
BlobJson(t) == JsonStr(<<t>>)

\* the (flag, message) tail that both writers share for Option<String>; the
\* string is written by serde_json when json, else by bincode
OptTail(opt, json) ==
    IF opt = <<>> THEN <<0>>
    ELSE <<1>> \o (IF json THEN JsonStr(opt[1]) ELSE BincodeStr(opt[1]))

\* ProverMessage::serialize_into
SerializeInto(m) ==
    CASE m[1] = "Authorize" ->
            BincodeStr(m[2]) \o BincodeStr(m[3]) \o BincodeStr(m[4]) \o BincodeStr(Decimal(m[5]))
      [] m[1] = "AuthorizeResult" ->
            <<IF m[2] THEN 1 ELSE 0>> \o OptTail(m[3], FALSE)
      [] m[1] = "Notify" -> BlobLE(m[2]) \o ToLE(m[3], 8)
      [] m[1] = "Submit" -> ToLE(m[2], 4) \o BlobLE(m[3]) \o BlobLE(m[4])
      [] m[1] = "ProofRate" -> ToLE(m[2], 8)
      [] m[1] = "SubmitResult" -> BincodeCode(m[2]) \o OptTail(m[3], FALSE)
      [] m[1] = "Canary" -> <<>>

\* ProverMessage::serialize_into_json
SerializeIntoJson(m) ==
    CASE m[1] = "Authorize" ->
            JsonTuple(<<JsonStr(m[2]), JsonStr(m[3]), JsonStr(m[4]), JsonStr(Decimal(m[5]))>>)
      [] m[1] = "AuthorizeResult" ->
            <<IF m[2] THEN 1 ELSE 0>> \o OptTail(m[3], TRUE)
      [] m[1] = "Notify" -> JsonTuple(<<BlobJson(m[2]), Decimal(m[3])>>)
      [] m[1] = "Submit" -> JsonTuple(<<Decimal(m[2]), BlobJson(m[3]), BlobJson(m[4])>>)
      [] m[1] = "ProofRate" -> Decimal(m[2])
      [] m[1] = "SubmitResult" -> JsonStr(CodeName(m[2])) \o OptTail(m[3], TRUE)
      [] m[1] = "Canary" -> <<>>

\* the payload format Encoder::encode picks for a message
EncodePayload(item) ==
    IF item[1] = "ProofRate" THEN SerializeInto(item) ELSE SerializeIntoJson(item)

\* Encoder::encode: the new content of dst.  The four reserved bytes go to the
\* end of dst, the length is computed from the whole of dst and is written
\* over the first four bytes of dst.
Encode(item, dst) ==
    LET reserved == dst \o <<0, 0, 0, 0>>
        written  == reserved \o <<Id(item)>> \o EncodePayload(item)
        msg_len  == Len(written) - 4
    IN  ToLE(msg_len, 4) \o Drop(written, 4)


\* 128 * 1024 * 1024, the largest declared length Decoder::decode accepts
MaxFrameLen == 134217728

(***************************************************************************)
(* Readers.  A read returns [res, v, rest]: res is "ok" (v is the value and *)
(* rest the bytes left in the reader), "err" (an Err the caller propagates  *)
(* with ?), "panic" (the thread unwinds) or "alloc" (see BincodeReadStr).   *)
(***************************************************************************)
Ok(v, rest) == [res |-> "ok", v |-> v, rest |-> rest]
Fail(kind) == [res |-> kind, v |-> <<>>, rest |-> <<>>]

\* reader.read_u8()
ReadU8(r) == IF r = <<>> THEN Fail("err") ELSE Ok(r[1], Tail(r))

\* reader.read_u32::<LittleEndian>() / read_u64; a value above what TLC's
\* integers hold is kept as its bytes
ReadUnsignedLE(r, w) ==
    IF Len(r) < w THEN Fail("err")
    ELSE LET b == Take(r, w) IN
         IF AllZero(Drop(b, 4)) /\ b[4] < 128
         THEN Ok(U32LE(Take(b \o <<0, 0, 0>>, 4)), Drop(r, w))
         ELSE Ok(b, Drop(r, w))

RECURSIVE IsAscii(_)
IsAscii(s) == IF s = <<>> THEN TRUE ELSE Head(s) < 128 /\ IsAscii(Tail(s))

\* bincode::deserialize_from::<String>: u64 length, then that many bytes of
\* UTF-8 (the model's strings are ASCII; a byte above 127 is read as invalid).
\* bincode sizes its buffer to the declared length before it reads: a declared
\* length above the largest frame ("alloc") ends in Err, a panic (capacity
\* overflow) or an allocation abort, depending on the length and the allocator.
BincodeReadStr(r) ==
    IF Len(r) < 8 THEN Fail("err")
    ELSE LET b == Take(r, 8)
             body == Drop(r, 8)
         IN  IF ~(AllZero(Drop(b, 4)) /\ b[4] < 128 /\ U32LE(b) <= MaxFrameLen)
             THEN Fail("alloc")
             ELSE LET n == U32LE(b) IN
                  IF Len(body) < n THEN Fail("err")
                  ELSE IF ~IsAscii(Take(body, n)) THEN Fail("err")
                  ELSE Ok(Take(body, n), Drop(body, n))

\* bincode::deserialize_from::<Code>: u32 variant index, 0..3
BincodeReadCode(r) ==
    IF Len(r) < 4 THEN Fail("err")
    ELSE IF ~(AllZero(SubSeq(r, 2, 4)) /\ r[1] <= 3) THEN Fail("err")
    ELSE Ok(Codes[r[1] + 1], Drop(r, 4))

\* read_le of a snarkvm value
BlobReadLE(r) ==
    IF r = <<>> \/ r[1] \notin BlobTokens THEN Fail("err") ELSE Ok(r[1], Tail(r))

RECURSIVE SkipWs(_)
\* serde_json skips ' ', '\t', '\n', '\r' between tokens
SkipWs(r) == IF r # <<>> /\ r[1] \in {32, 9, 10, 13} THEN SkipWs(Tail(r)) ELSE r

RECURSIVE JsonStrBody(_, _)
\* the characters of a JSON string up to its closing quote; escapes and
\* multi-byte UTF-8 are outside the model's alphabet and read as errors
JsonStrBody(r, acc) ==
    IF r = <<>> THEN Fail("err")
    ELSE IF r[1] = 34 THEN Ok(acc, Tail(r))
    ELSE IF r[1] < 32 \/ r[1] = 92 \/ r[1] >= 128 THEN Fail("err")
    ELSE JsonStrBody(Tail(r), Append(acc, r[1]))

\* a JSON string read into a String
JsonReadStr(r0) ==
    LET At(r) == IF r = <<>> \/ r[1] # 34 THEN Fail("err") ELSE JsonStrBody(Tail(r), <<>>)
    IN  At(SkipWs(r0))

RECURSIVE JsonDigits(_, _, _)
\* the digits of a JSON number; numbers of more than nine digits are outside
\* the model's range and read as errors
JsonDigits(r, acc, n) ==
    IF r # <<>> /\ r[1] \in 48..57
    THEN IF n >= 9 THEN Fail("err") ELSE JsonDigits(Tail(r), 10 * acc + (r[1] - 48), n + 1)
    ELSE IF r # <<>> /\ r[1] \in {46, 69, 101} THEN Fail("err")
    ELSE Ok(acc, r)

\* a JSON number read into an unsigned integer: no sign, no leading zero,
\* no fraction or exponent
JsonReadUnsigned(r0) ==
    LET At(r) ==
            IF r = <<>> \/ r[1] \notin 48..57 THEN Fail("err")
            ELSE IF r[1] = 48 /\ Len(r) > 1 /\ r[2] \in 48..57 THEN Fail("err")
            ELSE JsonDigits(r, 0, 0)
    IN  At(SkipWs(r0))

\* a snarkvm value read from JSON
JsonReadBlob(r) ==
    LET Of(s) ==
            IF s.res # "ok" THEN s
            ELSE IF Len(s.v) = 1 /\ s.v[1] \in BlobTokens THEN Ok(s.v[1], s.rest)
            ELSE Fail("err")
    IN  Of(JsonReadStr(r))

\* a Code read from JSON: the name of a variant
JsonReadCode(r) ==
    LET Of(s) ==
            IF s.res # "ok" THEN s
            ELSE IF \E i \in 1..4 : CodeName(Codes[i]) = s.v
                 THEN Ok(CHOOSE c \in {Codes[i] : i \in 1..4} : CodeName(c) = s.v, s.rest)
                 ELSE Fail("err")
    IN  Of(JsonReadStr(r))

\* one element of a JSON array, read as the type the tuple has in its place
JsonReadOne(r, kind) ==
    CASE kind = "str"  -> JsonReadStr(r)
      [] kind = "num"  -> JsonReadUnsigned(r)
      [] kind = "blob" -> JsonReadBlob(r)
      [] kind = "code" -> JsonReadCode(r)

RECURSIVE JsonTupleItems(_, _, _)
\* the elements of a JSON array read as a tuple of the given kinds, from
\* after the '[' to after the ']'
JsonTupleItems(r, kinds, acc) ==
    LET Read(e) ==
            IF e.res # "ok" THEN Fail("err")
            ELSE JsonTupleItems(e.rest, Tail(kinds), Append(acc, e.v))
        At(t) ==
            IF kinds = <<>>
            THEN IF t # <<>> /\ t[1] = 93 THEN Ok(acc, Tail(t)) ELSE Fail("err")
            ELSE IF acc = <<>> THEN Read(JsonReadOne(t, Head(kinds)))
            ELSE IF t = <<>> \/ t[1] # 44 THEN Fail("err")
            ELSE Read(JsonReadOne(Tail(t), Head(kinds)))
    IN  At(SkipWs(r))

\* a JSON array read as a tuple
JsonReadTuple(r0, kinds) ==
    LET At(r) ==
            IF r = <<>> \/ r[1] # 91 THEN Fail("err") ELSE JsonTupleItems(Tail(r), kinds, <<>>)
    IN  At(SkipWs(r0))

\* serde_json::from_reader: one value, then nothing but whitespace up to the
\* end of the reader
FromReader(x) ==
    IF x.res # "ok" THEN x
    ELSE IF SkipWs(x.rest) # <<>> THEN Fail("err")
    ELSE Ok(x.v, <<>>)

RECURSIVE DigitsValue(_, _)
\* the value of a run of decimal digits, capped above u16::MAX
DigitsValue(s, acc) ==
    IF s = <<>> THEN acc
    ELSE DigitsValue(Tail(s), IF 10 * acc + (s[1] - 48) > 65535 THEN 65536
                              ELSE 10 * acc + (s[1] - 48))

\* u16::from_str / str::parse::<u16>: an optional '+', then digits, at most
\* 65535; -1 for Err
ParseU16(s) ==
    LET Digits(d) ==
            IF d = <<>> \/ \E i \in 1..Len(d) : d[i] \notin 48..57 THEN -1
            ELSE LET Value(n) == IF n > 65535 THEN -1 ELSE n IN Value(DigitsValue(d, 0))
    IN  Digits(IF s # <<>> /\ s[1] = 43 THEN Tail(s) ELSE s)

\* the version field of Authorize: version.parse::<u16>().unwrap()
AuthorizeOf(f) ==
    LET Version(version) ==
            IF version < 0 THEN Fail("panic")
            ELSE Ok(<<"Authorize", f[1], f[2], f[3], version>>, <<>>)
    IN  Version(ParseU16(f[4]))

\* Some(serde_json::from_reader(reader)) of a String
JsonReadStrToEnd(r) == FromReader(JsonReadStr(r))

\* Option<String> behind a flag byte; the string is read by serde_json when
\* json, else by bincode
ReadOptTail(r, json) ==
    LET Some(s) == IF s.res # "ok" THEN s ELSE Ok(<<s.v>>, s.rest)
        Flag(flag) ==
            IF flag.res # "ok" THEN flag
            ELSE IF flag.v # 1 THEN Ok(<<>>, flag.rest)
            ELSE IF json THEN Some(JsonReadStrToEnd(flag.rest))
            ELSE Some(BincodeReadStr(flag.rest))
    IN  Flag(ReadU8(r))

\* three bincode strings and the version string of a binary Authorize
BincodeReadStrs(r) ==
    LET Account(a) ==
            IF a.res # "ok" THEN a ELSE
            LET Worker(w) ==
                    IF w.res # "ok" THEN w ELSE
                    LET Password(p) ==
                            IF p.res # "ok" THEN p ELSE
                            LET Version(v) ==
                                    IF v.res # "ok" THEN v
                                    ELSE Ok(<<a.v, w.v, p.v, v.v>>, v.rest)
                            IN  Version(BincodeReadStr(p.rest))
                    IN  Password(BincodeReadStr(w.rest))
            IN  Worker(BincodeReadStr(a.rest))
    IN  Account(BincodeReadStr(r))

\* the message of the fields read, or the failure of the read
AuthorizeFrom(f) == IF f.res # "ok" THEN f ELSE AuthorizeOf(f.v)

AuthorizeResultFrom(result, message) ==
    IF message.res # "ok" THEN message
    ELSE Ok(<<"AuthorizeResult", result.v = 1, message.v>>, message.rest)

SubmitResultFrom(code, message) ==
    IF message.res # "ok" THEN message
    ELSE Ok(<<"SubmitResult", code.v, message.v>>, message.rest)

\* ProverMessage::deserialize: the binary payload format
Deserialize(reader) ==
    LET Result(result) ==
            IF result.res # "ok" THEN result
            ELSE AuthorizeResultFrom(result, ReadOptTail(result.rest, FALSE))
        PoolTarget(template, pool_target) ==
            IF pool_target.res # "ok" THEN pool_target
            ELSE Ok(<<"Notify", template.v, pool_target.v>>, pool_target.rest)
        Template(template) ==
            IF template.res # "ok" THEN template
            ELSE PoolTarget(template, ReadUnsignedLE(template.rest, 8))
        Proof(height, nonce, proof) ==
            IF proof.res # "ok" THEN proof
            ELSE Ok(<<"Submit", height.v, nonce.v, proof.v>>, proof.rest)
        Nonce(height, nonce) ==
            IF nonce.res # "ok" THEN nonce
            ELSE Proof(height, nonce, BlobReadLE(nonce.rest))
        Height(height) ==
            IF height.res # "ok" THEN height
            ELSE Nonce(height, BlobReadLE(height.rest))
        CodeRead(code) ==
            IF code.res # "ok" THEN code
            ELSE SubmitResultFrom(code, ReadOptTail(code.rest, FALSE))
        MsgId(id) ==
            IF id.res # "ok" THEN id
            ELSE CASE id.v = 0 -> AuthorizeFrom(BincodeReadStrs(id.rest))
                   [] id.v = 1 -> Result(ReadU8(id.rest))
                   [] id.v = 2 -> Template(BlobReadLE(id.rest))
                   [] id.v = 3 -> Height(ReadUnsignedLE(id.rest, 4))
                   [] id.v = 4 -> CodeRead(BincodeReadCode(id.rest))
                   [] OTHER -> Fail("err")
    IN  MsgId(ReadU8(reader))

\* ProverMessage::deserialize_json: the hybrid text payload format
DeserializeJson(reader) ==
    LET Result(result) ==
            IF result.res # "ok" THEN result
            ELSE AuthorizeResultFrom(result, ReadOptTail(result.rest, TRUE))
        Notify(f) ==
            IF f.res # "ok" THEN f ELSE Ok(<<"Notify", f.v[1], f.v[2]>>, f.rest)
        Submit(f) ==
            IF f.res # "ok" THEN f ELSE Ok(<<"Submit", f.v[1], f.v[2], f.v[3]>>, f.rest)
        CodeRead(code) ==
            IF code.res # "ok" THEN code
            ELSE SubmitResultFrom(code, ReadOptTail(code.rest, TRUE))
        MsgId(id) ==
            IF id.res # "ok" THEN id
            ELSE CASE id.v = 0 ->
                        AuthorizeFrom(FromReader(JsonReadTuple(id.rest,
                                                               <<"str", "str", "str", "str">>)))
                   [] id.v = 1 -> Result(ReadU8(id.rest))
                   [] id.v = 2 -> Notify(FromReader(JsonReadTuple(id.rest, <<"blob", "num">>)))
                   [] id.v = 3 ->
                        Submit(FromReader(JsonReadTuple(id.rest, <<"num", "blob", "blob">>)))
                   [] id.v = 4 -> CodeRead(FromReader(JsonReadCode(id.rest)))
                   [] OTHER -> Fail("err")
    IN  MsgId(ReadU8(reader))

\* the payload format Decoder::decode picks for a message id
DecodePayload(msg_id, frame) ==
    IF msg_id = 4 THEN Deserialize(frame) ELSE DeserializeJson(frame)

\* a decode that consumes the frame only when its payload parsed
DecodeAdvanceOnOk(src, length, msg) == IF msg.res = "ok" THEN Drop(src, 4 + length) ELSE src

\* src.advance(4 + length), whatever deserialize returned
DecodeAdvance(src, length, msg) == Drop(src, 4 + length)

\* a limit check that also rejects a declared length of exactly 128 MiB
TooLongInclusive(length) == length >= MaxFrameLen

\* length > 128 * 1024 * 1024
TooLong(length) == length > MaxFrameLen

\* a completeness check that forgets the four bytes of the length prefix
FrameMissingNoPrefix(src, length) == Len(src) < length

\* src.len() < 4 + length
FrameMissing(src, length) == Len(src) < 4 + length

\* what a call that came to size a buffer from the wire can end as
Outcomes(res) == IF res = "alloc" THEN {"err", "panic"} ELSE {res}

\* what Decoder::decode returns for the frame at the head of src, msg being
\* what the payload read returned: the frame is consumed unless the read
\* panicked
Decoded(src, length, msg) ==
    IF msg.res = "panic"
    THEN [res |-> "panic", msg |-> <<>>, src |-> src]
    ELSE [res |-> CASE msg.res = "ok" -> "msg"
                    [] msg.res = "alloc" -> "alloc"
                    [] OTHER -> "err",
          msg |-> IF msg.res = "ok" THEN msg.v ELSE <<>>,
          src |-> DecodeAdvance(src, length, msg)]

\* Decoder::decode on the buffer src: [res, msg, src], res being "none"
\* (Ok(None)), "msg" (Ok(Some(msg))), "err", "panic" or "alloc" (one of the
\* last two, see Outcomes), and src the buffer the call leaves when it returns
Decode(src) ==
    LET Length(length) ==
            IF TooLong(length) THEN [res |-> "err", msg |-> <<>>, src |-> src]
            ELSE IF FrameMissing(src, length) THEN [res |-> "none", msg |-> <<>>, src |-> src]
            \* src[4..5] of a buffer of four bytes
            ELSE IF Len(src) < 5 THEN [res |-> "panic", msg |-> <<>>, src |-> src]
            ELSE Decoded(src, length, DecodePayload(src[5], Take(Drop(src, 4), length)))
    IN  IF Len(src) < 4 THEN [res |-> "none", msg |-> <<>>, src |-> src]
        ELSE Length(U32LE(src))


(***************************************************************************)
(* Inputs of the codec: messages to encode, and byte streams to decode      *)
(***************************************************************************)
\* frames a well-behaved peer sends, each with the message it stands for
Vectors ==
    { [bytes |-> <<3, 0, 0, 0, 1, 1, 0>>,
       msg   |-> <<"AuthorizeResult", TRUE, <<>> >>],
      [bytes |-> <<3, 0, 0, 0, 1, 0, 0>>,
       msg   |-> <<"AuthorizeResult", FALSE, <<>> >>],
      [bytes |-> <<6, 0, 0, 0, 1, 0, 1, 34, 114, 34>>,
       msg   |-> <<"AuthorizeResult", FALSE, << <<114>> >> >>],
      [bytes |-> <<8, 0, 0, 0, 2, 91, 34, 88, 34, 44, 55, 93>>,
       msg   |-> <<"Notify", 88, 7>>],
      [bytes |-> <<6, 0, 0, 0, 4, 0, 0, 0, 0, 0>>,
       msg   |-> <<"SubmitResult", "Success", <<>> >>],
      [bytes |-> <<6, 0, 0, 0, 4, 1, 0, 0, 0, 0>>,
       msg   |-> <<"SubmitResult", "InvalidProof", <<>> >>],
      [bytes |-> <<15, 0, 0, 0, 4, 2, 0, 0, 0, 1, 1, 0, 0, 0, 0, 0, 0, 0, 114>>,
       msg   |-> <<"SubmitResult", "Stale", << <<114>> >> >>],
      [bytes |-> <<6, 0, 0, 0, 4, 3, 0, 0, 0, 0>>,
       msg   |-> <<"SubmitResult", "ProxyException", <<>> >>],
      [bytes |-> <<17, 0, 0, 0, 0, 91, 34, 97, 34, 44, 34, 119, 34, 44, 34, 34, 44, 34, 49, 34, 93>>,
       msg   |-> <<"Authorize", <<97>>, <<119>>, <<>>, 1>>],
      [bytes |-> <<14, 0, 0, 0, 3, 91, 49, 48, 48, 44, 34, 88, 34, 44, 34, 89, 34, 93>>,
       msg   |-> <<"Submit", 100, 88, 89>>] }

\* complete frames with a valid length and a kind id decode does not know
UnknownKindFrames ==
    { <<1, 0, 0, 0, 5>>,
      <<1, 0, 0, 0, 6>>,
      <<9, 0, 0, 0, 6, 7, 0, 0, 0, 0, 0, 0, 0>>,
      <<2, 0, 0, 0, 9, 0>>,
      <<1, 0, 0, 0, 255>> }

\* complete frames of a known kind whose payload does not parse
MalformedFrames ==
    { <<2, 0, 0, 0, 1, 1>>,
      <<3, 0, 0, 0, 2, 91, 93>>,
      <<6, 0, 0, 0, 4, 9, 0, 0, 0, 0>>,
      <<4, 0, 0, 0, 1, 1, 1, 34>> }

\* a SubmitResult whose reason declares isize::MAX bytes, an Authorize whose
\* version is no u16, and a frame of declared length 0
PanicFrames ==
    { <<14, 0, 0, 0, 4, 0, 0, 0, 0, 1, 255, 255, 255, 255, 255, 255, 255, 127>>,
      <<17, 0, 0, 0, 0, 91, 34, 97, 34, 44, 34, 119, 34, 44, 34, 34, 44, 34, 120, 34, 93>>,
      <<0, 0, 0, 0>> }

\* headers that declare 128 MiB + 1 and more, and exactly 128 MiB
OversizeHeads == { <<1, 0, 0, 8>>, <<0, 0, 0, 9>>, <<255, 255, 255, 127>>, <<0, 1, 0, 8>> }
LimitHead == <<0, 0, 0, 8>>

FollowFrames ==
    { <<3, 0, 0, 0, 1, 1, 0>>,
      <<8, 0, 0, 0, 2, 91, 34, 88, 34, 44, 55, 93>>,
      <<6, 0, 0, 0, 4, 0, 0, 0, 0, 0>> }

FirstFrames ==
    {v.bytes : v \in Vectors} \cup UnknownKindFrames \cup MalformedFrames \cup PanicFrames
        \cup OversizeHeads \cup {h \o <<1, 1, 0>> : h \in OversizeHeads \cup {LimitHead}}
        \cup {LimitHead}

\* the byte streams fed to the decoder
Streams == FirstFrames \cup {f \o g : f \in FirstFrames, g \in FollowFrames}

Strs == {<<>>, <<97>>, <<97, 98>>}
Opts == {<<>>} \cup {<<s>> : s \in Strs}

\* the messages handed to the encoder
Messages ==
    {<<"Authorize", a, <<119>>, <<>>, v>> : a \in Strs \ {<<>>}, v \in {VERSION, 65535}}
        \cup {<<"AuthorizeResult", b, o>> : b \in BOOLEAN, o \in Opts}
        \cup {<<"Notify", t, n>> : t \in BlobTokens, n \in {0, 5000}}
        \cup {<<"Submit", h, 88, p>> : h \in {0, 100}, p \in BlobTokens}
        \cup {<<"SubmitResult", Codes[i], o>> : i \in 1..4, o \in Opts}
        \cup {<<"ProofRate", r>> : r \in {0, 7, 300}}
        \cup {<<"Canary">>}

\* what the output buffer holds when encode is called: nothing, or a frame
\* that was not flushed
PriorContents == {<<>>, <<9, 0, 0, 0, 6, 7, 0, 0, 0, 0, 0, 0, 0>>}


(***************************************************************************)
(* The codec as a state machine: one encoder buffer, one decoder buffer     *)
(***************************************************************************)
VARIABLES
    item,       \* the message last handed to encode, <<>> before any
    dst,        \* the output buffer of encode
    prior,      \* what dst held when encode was called
    stream,     \* every byte handed to the decoder's side so far
    feed,       \* the bytes of stream that have not reached src yet
    src,        \* the accumulating buffer of decode
    taken,      \* how many bytes decode has removed from src so far
    last,       \* the last decode call: buffer before, result, buffer after
    yielded     \* the messages decode has returned, in order

codecVars == <<item, dst, prior, stream, feed, src, taken, last, yielded>>

\* the state of the connection manager (client.rs)
VARIABLES
    account,        \* Client.account: Option<String>, <<>> for None
    worker,         \* Client.worker: Option<String>
    address,        \* Client.address: Option<Address>, as the string it renders to
    pc,             \* where the background task of start is
    connected,      \* the task holds a socket (framed exists)
    conn,           \* connections established: the id of the current one
    queue,          \* the outbound channel: messages sent and not yet received
    waiters,        \* send calls waiting for capacity: the message, and whether
                    \* the call was made without a connection
    granted,        \* messages of producers that were handed a permit and
                    \* have not pushed their message yet
    nextId,         \* messages that have entered the channel so far
    remoteClosed,   \* a read of the socket has returned 0 bytes: the remote closed
    framesSent,     \* chunks of bytes the remote has sent that the task has read
    rbuf,           \* framed: the read buffer
    fEof,           \* framed: read state, eof
    fReadable,      \* framed: read state, is_readable
    fErrored,       \* framed: read state, has_errored
    wbuf,           \* framed: messages encoded and not yet written out
    tx,             \* the last message written to a socket
    events,         \* the prover's event channel
    proverOpen,     \* the prover still holds the receiving end
    pending,        \* the event prover_sender.send is waiting to deliver
    rx,             \* what framed.next() returned last
    dropped         \* the messages the drain discarded

cfgVars == <<account, worker, address>>

clientVars ==
    <<account, worker, address, pc, connected, conn, queue, waiters, granted, nextId, remoteClosed, framesSent,
      rbuf, fEof, fReadable, fErrored, wbuf, tx, events, proverOpen, pending, rx, dropped>>

vars == <<codecVars, clientVars>>

framedVars == <<rbuf, fEof, fReadable, fErrored, wbuf>>
sockVars == <<remoteClosed, framesSent>>
chanVars == <<queue, waiters, granted, nextId>>
proverVars == <<events, proverOpen, pending>>

NoCall == [before |-> <<>>, at |-> 0, res |-> "never", msg |-> <<>>, after |-> <<>>,
           waited |-> FALSE]

\* the decoder's side is given a byte stream; the encoder's buffer is empty or
\* holds an unsent frame
CodecInit ==
    /\ item = <<>>
    /\ dst \in PriorContents
    /\ prior = dst
    /\ stream \in Streams \cup {<<>>}
    /\ feed = stream
    /\ src = <<>>
    /\ taken = 0
    /\ last = NoCall
    /\ yielded = <<>>

\* encoder.encode(m, &mut dst)
CodecEncode(m) ==
    /\ item = <<>>
    /\ stream = <<>>
    /\ item' = m
    /\ dst' = Encode(m, dst)
    /\ UNCHANGED <<prior, stream, feed, src, taken, last, yielded, clientVars>>

\* the output buffer is written out and arrives at the decoder's side
CodecLoopback ==
    /\ item # <<>>
    /\ dst # <<>>
    /\ stream' = stream \o dst
    /\ feed' = feed \o dst
    /\ dst' = <<>>
    /\ UNCHANGED <<item, prior, src, taken, last, yielded, clientVars>>

\* the next k bytes arrive in the decoder's buffer
CodecFeed(k) ==
    /\ last.res # "panic"
    /\ k \in 1..Len(feed)
    /\ src' = src \o Take(feed, k)
    /\ feed' = Drop(feed, k)
    /\ UNCHANGED <<item, dst, prior, stream, taken, last, yielded, clientVars>>

\* decoder.decode(&mut src)
CodecDecode ==
    /\ last.res # "panic"
    /\ \E o \in Outcomes(Decode(src).res) :
        LET d == [Decode(src) EXCEPT !.res = o] IN
        /\ src' = d.src
        /\ taken' = taken + (Len(src) - Len(d.src))
        /\ last' = [before |-> src, at |-> taken, res |-> d.res, msg |-> d.msg,
                    after |-> d.src,
                    \* the call before this one found part of a frame and waited
                    waited |-> last.res = "none" /\ last.before # <<>>]
        /\ yielded' = IF d.res = "msg" THEN Append(yielded, d.msg) ELSE yielded
    /\ UNCHANGED <<item, dst, prior, stream, feed, clientVars>>

CodecNext ==
    \/ \E m \in Messages : CodecEncode(m)
    \/ CodecLoopback
    \/ \E k \in 1..Len(feed) : CodecFeed(k)
    \/ CodecDecode


IsPrefix(p, s) == Len(p) <= Len(s) /\ Take(s, Len(p)) = p

\* the first four bytes of b declare more than 128 MiB (134217728 is
\* 8 * 2^24: bytes 0, 0, 0, 8)
DeclaresOver(b) == b[4] > 8 \/ (b[4] = 8 /\ b[1] + b[2] + b[3] > 0)
DeclaresLimit(b) == b[4] = 8 /\ b[1] + b[2] + b[3] = 0

(***************************************************************************)
(* Properties of the codec                                                 *)
(***************************************************************************)
\* C5 (partial-frame safety): when a well-formed frame starts at the position
\* decode has reached, a call made before the whole frame is in the buffer
\* returns "need more data" and leaves the buffer as it was, and the call made
\* once the whole frame is there returns that frame's message and removes
\* exactly the bytes of the frame.
C5_PartialFrameSafety ==
    last.res # "never" =>
        \A v \in Vectors :
            IsPrefix(v.bytes, Drop(stream, last.at)) =>
                IF Len(last.before) < Len(v.bytes)
                THEN last.res = "none" /\ last.after = last.before
                ELSE /\ last.res = "msg"
                     /\ MsgEq(last.msg, v.msg)
                     /\ last.after = Drop(last.before, Len(v.bytes))

\* a frame arrived in pieces: a call waited on a part of it and the next call
\* returned its message
C5_Witness ==
    /\ last.res = "msg"
    /\ last.waited
    /\ \E v \in Vectors : stream = v.bytes /\ MsgEq(last.msg, v.msg)
    /\ src = <<>> /\ feed = <<>> /\ Len(yielded) = 1

\* C6 (oversize rejection): on a buffer of at least four bytes that declares
\* more than 128 MiB decode returns an error and leaves the buffer unchanged;
\* a declared length of exactly 128 MiB is not an error.
C6_OversizeRejection ==
    (last.res # "never" /\ Len(last.before) >= 4) =>
        /\ DeclaresOver(last.before) => (last.res = "err" /\ last.after = last.before)
        /\ DeclaresLimit(last.before) => last.res = "none"

C6_Witness ==
    /\ last.res = "err"
    /\ Take(last.before, 4) = <<1, 0, 0, 8>>
    /\ Len(last.before) > 4
    /\ src = last.before

\* C7 (unknown-kind consumption): on a buffer that holds a whole frame of
\* valid length whose kind id is none of 0..4, decode returns an error and
\* removes exactly 4 + length bytes; the call that then finds the following
\* well-formed frame whole returns its message.
C7_UnknownKindConsumed ==
    /\ (/\ last.res # "never"
        /\ Len(last.before) >= 5
        /\ ~DeclaresOver(last.before)
        /\ U32LE(last.before) >= 1
        /\ Len(last.before) >= 4 + U32LE(last.before)
        /\ last.before[5] \notin 0..4)
       => /\ last.res = "err"
          /\ last.after = Drop(last.before, 4 + U32LE(last.before))
    /\ \A u \in UnknownKindFrames, v \in Vectors :
        (/\ stream = u \o v.bytes
         /\ last.at = Len(u)
         /\ Len(last.before) >= Len(v.bytes))
        => (last.res = "msg" /\ MsgEq(last.msg, v.msg) /\ last.after = <<>>)

C7_Witness ==
    /\ last.res = "msg"
    /\ last.at > 0
    /\ Take(stream, last.at) \in {<<1, 0, 0, 0, 5>>, <<9, 0, 0, 0, 6, 7, 0, 0, 0, 0, 0, 0, 0>>}
    /\ yielded = <<last.msg>>

\* C8 (round trip): the frame encode writes for a message into an empty
\* buffer, handed whole to decode, comes back as that message.
C8_RoundTrip ==
    (/\ item # <<>>
     /\ item[1] # "Canary"
     /\ prior = <<>>
     /\ last.res # "never"
     /\ last.at = 0
     /\ last.before = stream)
    => (last.res = "msg" /\ MsgEq(last.msg, item))


(***************************************************************************)
(* client.rs: the connection manager                                        *)
(***************************************************************************)
\* mpsc::channel(1024)
QueueCapacity == 1024

\* bounds of the model
MaxConnects == 2    \* connections established
MaxEnqueue == 2     \* messages the application hands to the sender
MaxFrames == 1      \* chunks of bytes the task reads from its sockets
EventCap == 1       \* capacity of the prover's event channel

\* the codec's own state machine is at rest while the client runs
CodecIdle ==
    /\ item = <<>> /\ dst = <<>> /\ prior = <<>> /\ stream = <<>> /\ feed = <<>>
    /\ src = <<>> /\ taken = 0 /\ last = NoCall /\ yielded = <<>>

NoTx == [conn |-> 0, from |-> "none", msg |-> <<>>, id |-> 0, stale |-> FALSE, late |-> FALSE,
         prevId |-> 0]
NoRx == [conn |-> 0, tick |-> 0, res |-> "none", msg |-> <<>>, over |-> FALSE,
         eof |-> FALSE, closed |-> FALSE, prev |-> "none", authed |-> FALSE]

\* Client::init, then task::spawn in start; q is what the application has
\* put in the outbound channel by then
ClientState(q) ==
    /\ pc = "Connecting"
    /\ connected = FALSE
    /\ conn = 0
    /\ queue = q
    /\ waiters = <<>>
    /\ granted = <<>>
    /\ nextId = Len(q)
    /\ remoteClosed = FALSE
    /\ framesSent = 0
    /\ rbuf = <<>>
    /\ fEof = FALSE
    /\ fReadable = FALSE
    /\ fErrored = FALSE
    /\ wbuf = <<>>
    /\ tx = NoTx
    /\ events = <<>>
    /\ proverOpen = TRUE
    /\ pending = <<>>
    /\ rx = NoRx
    /\ dropped = {}

\* the identity the caller configures: an account, a worker label, no address
ClientStart(q) ==
    /\ account = <<<<97>>>>
    /\ worker = <<<<119>>>>
    /\ address = <<>>
    /\ ClientState(q)

ClientInit == ClientStart(<<>>)

\* the client has no established connection: none was made yet, or the task
\* has given the last one up and sleeps before it reconnects
NoConnection == ~connected \/ pc = "Backoff"

\* Framed::new(socket, ProverMessage::Canary)
NewFramed ==
    /\ rbuf' = <<>>
    /\ fEof' = FALSE
    /\ fReadable' = FALSE
    /\ fErrored' = FALSE
    /\ wbuf' = <<>>

\* the socket of the connection
NewSocket ==
    /\ remoteClosed' = FALSE

(***************************************************************************)
(* The outbound channel (tokio mpsc, bounded)                               *)
(***************************************************************************)
\* a capacity check that lets one message too many in
HasPermitOffByOne == Len(queue) + Len(granted) <= QueueCapacity

\* the channel's semaphore has a free permit
HasPermit == Len(queue) + Len(granted) < QueueCapacity

\* a message as the channel holds it: the application's message, its serial
\* number in the order the messages entered the channel, whether the
\* client had no established connection when it entered, and whether it comes
\* from a send call that was made without a connection and had to wait
Queued(m) == [msg |-> m, id |-> nextId + 1, stale |-> NoConnection, late |-> FALSE]

\* a send call in the line of waiters
Waiting(m) == [msg |-> m, late |-> NoConnection]

\* the message of a send call that has waited, as it enters the channel
Resumed(w) == [Queued(w.msg) EXCEPT !.late = w.late]

\* the messages the application sends: a rate report stands for them all,
\* the manager never looks into an outbound message
Outbound == {<<"ProofRate", 7>>}

\* send calls the application has made
SendCalls == nextId + Len(waiters) + Len(granted)

\* sender.send(m).await: the message enters the channel at once when a permit
\* is free, else the producer waits in line
ProducerSend(m) ==
    /\ IF HasPermit
       THEN /\ queue' = Append(queue, Queued(m))
            /\ nextId' = nextId + 1
            /\ UNCHANGED <<waiters, granted>>
       ELSE /\ waiters' = Append(waiters, Waiting(m))
            /\ UNCHANGED <<queue, granted, nextId>>
    /\ UNCHANGED <<codecVars, cfgVars, pc, connected, conn, sockVars, framedVars, tx, proverVars,
                   rx, dropped>>

\* a producer that was handed a permit runs and pushes its message
ProducerResume ==
    /\ \E i \in 1..Len(granted) :
        /\ queue' = Append(queue, Resumed(granted[i]))
        /\ granted' = SubSeq(granted, 1, i - 1) \o SubSeq(granted, i + 1, Len(granted))
    /\ nextId' = nextId + 1
    /\ UNCHANGED <<codecVars, cfgVars, pc, connected, conn, waiters, sockVars, framedVars, tx,
                   proverVars, rx, dropped>>

\* the receiver takes the message at the head; its permit goes to the
\* producer that has waited longest, if any
Received(q) ==
    [msg  |-> Head(q),
     rest |-> Tail(q),
     waiters |-> IF waiters = <<>> THEN waiters ELSE Tail(waiters),
     granted |-> IF waiters = <<>> THEN granted ELSE Append(granted, Head(waiters))]

(***************************************************************************)
(* start: connect, authorize, drain                                         *)
(***************************************************************************)
\* the Authorize the task builds: the account, or else the address as a
\* string, the worker, an empty password, the protocol version
\* an authorization that takes the address whenever one is configured
AuthorizationByAddress ==
    IF address = <<>>
    THEN <<"Authorize", account[1], worker[1], <<>>, VERSION>>
    ELSE <<"Authorize", address[1], worker[1], <<>>, VERSION>>

\* the authorization message of lines 65-69
Authorization ==
    IF account # <<>>
    THEN <<"Authorize", account[1], worker[1], <<>>, VERSION>>
    ELSE <<"Authorize", address[1], worker[1], <<>>, VERSION>>

\* client.worker.as_ref().unwrap() without a worker, or
\* client.address.as_ref().unwrap() with neither account nor address
AuthorizationPanics == worker = <<>> \/ (account = <<>> /\ address = <<>>)

\* how a flush of the write buffer can end: once a write to the socket has
\* failed (the buffer still holds what it could not write), writes keep failing
FlushOutcomes == IF wbuf = <<>> THEN BOOLEAN ELSE {FALSE}

\* the record of a message written to the socket; prevId is the serial number
\* of the queued message written before it on the same connection
Written(from, m) ==
    [conn |-> conn, from |-> from,
     msg |-> IF from = "queue" THEN m.msg ELSE m,
     id |-> IF from = "queue" THEN m.id ELSE 0,
     stale |-> IF from = "queue" THEN m.stale ELSE FALSE,
     late |-> IF from = "queue" THEN m.late ELSE FALSE,
     prevId |-> IF tx.conn = conn THEN (IF tx.from = "queue" THEN tx.id ELSE tx.prevId) ELSE 0]

\* framed.send(m).await: encode into the write buffer, then flush; a flush
\* that fails leaves what it could not write in the buffer
FramedSend(from, m, ok) ==
    IF ok THEN tx' = Written(from, m) /\ wbuf' = <<>>
    ELSE tx' = tx /\ wbuf' = Append(wbuf, Written(from, m))

\* timeout(5 s, TcpStream::connect) returns Ok(Ok(socket))
ConnectOk ==
    /\ pc = "Connecting"
    /\ conn < MaxConnects
    /\ conn' = conn + 1
    /\ connected' = TRUE
    /\ NewFramed
    /\ NewSocket
    /\ pc' = "Authorize"
    /\ UNCHANGED <<codecVars, cfgVars, chanVars, framesSent, tx, proverVars, rx, dropped>>

\* timeout(..) returns Ok(Err(e)): log, then sleep
ConnectErr ==
    /\ pc = "Connecting"
    /\ pc' = "Backoff"
    /\ UNCHANGED <<codecVars, cfgVars, connected, conn, chanVars, sockVars, framedVars, tx,
                   proverVars, rx, dropped>>

\* timeout(..) returns Err(Elapsed): log, then sleep
ConnectTimeout ==
    /\ pc = "Connecting"
    /\ pc' = "Backoff"
    /\ UNCHANGED <<codecVars, cfgVars, connected, conn, chanVars, sockVars, framedVars, tx,
                   proverVars, rx, dropped>>

\* framed.send(authorization).await; an error is logged and the task goes on
SendAuthorization ==
    /\ pc = "Authorize"
    /\ IF AuthorizationPanics
       THEN \* the task unwinds; framed and the socket are dropped
            /\ pc' = "Panicked"
            /\ connected' = FALSE
            /\ NewFramed
            /\ tx' = tx
       ELSE /\ \E ok \in FlushOutcomes : FramedSend("task", Authorization, ok)
            /\ pc' = "Drain"
            /\ UNCHANGED <<connected, rbuf, fEof, fReadable, fErrored>>
    /\ UNCHANGED <<codecVars, cfgVars, conn, chanVars, sockVars, proverVars, rx, dropped>>

\* a drain that discards nothing
DrainNothing ==
    /\ pc = "Drain"
    /\ pc' = "Select"
    /\ UNCHANGED <<codecVars, cfgVars, connected, conn, chanVars, sockVars, framedVars, tx,
                   proverVars, rx, dropped>>

\* while receiver.try_recv().is_ok() {}: one turn of the loop
Drain ==
    /\ pc = "Drain"
    /\ IF queue # <<>>
       THEN /\ queue' = Received(queue).rest
            /\ waiters' = Received(queue).waiters
            /\ granted' = Received(queue).granted
            /\ dropped' = dropped \cup {[id |-> Head(queue).id, stale |-> Head(queue).stale]}
            /\ pc' = pc
       ELSE /\ pc' = "Select"
            /\ UNCHANGED <<queue, waiters, granted, dropped>>
    /\ UNCHANGED <<codecVars, cfgVars, connected, conn, nextId, sockVars, framedVars, tx,
                   proverVars, rx>>

(***************************************************************************)
(* start: the select! loop                                                  *)
(***************************************************************************)
\* a receive that takes whichever queued message comes to hand
RecvOutboundAny ==
    /\ pc = "Select"
    /\ \E i \in 1..Len(queue) :
        /\ queue' = SubSeq(queue, 1, i - 1) \o SubSeq(queue, i + 1, Len(queue))
        /\ \E ok \in FlushOutcomes : FramedSend("queue", queue[i], ok)
    /\ UNCHANGED <<codecVars, cfgVars, pc, connected, conn, waiters, granted, nextId, sockVars, rbuf,
                   fEof, fReadable, fErrored, proverVars, rx, dropped>>

\* Some(message) = receiver.recv() => framed.send(message).await; an error is
\* logged
RecvOutbound ==
    /\ pc = "Select"
    /\ queue # <<>>
    /\ queue' = Received(queue).rest
    /\ waiters' = Received(queue).waiters
    /\ granted' = Received(queue).granted
    /\ \E ok \in FlushOutcomes : FramedSend("queue", Received(queue).msg, ok)
    /\ UNCHANGED <<codecVars, cfgVars, pc, connected, conn, nextId, sockVars, rbuf, fEof, fReadable,
                   fErrored, proverVars, rx, dropped>>

\* what framed.next() returned, with the state it was returned in; over marks
\* the error of a declared length above the limit, prev is what it returned
\* the time before on the same connection, authed that it has returned an
\* AuthorizeResult with success on this connection
Rx(res, m, over) ==
    [conn |-> conn, tick |-> 1 - rx.tick, res |-> res, msg |-> m, over |-> over,
     eof |-> fEof, closed |-> remoteClosed,
     prev |-> IF rx.conn # conn THEN "none"
              ELSE IF rx.res = "err" /\ rx.over THEN "over"
              ELSE rx.res,
     authed |-> \/ rx.conn = conn /\ rx.authed
                \/ res = "msg" /\ m[1] = "AuthorizeResult" /\ m[2]]

\* a handler that forwards every submission result
SubmitResultEventAll(code, message) == <<"Result", code = "Success", message>>

\* the SubmitResult arm: the event to forward, <<>> for none
SubmitResultEvent(code, message) ==
    IF code = "ProxyException" THEN <<>> ELSE <<"Result", code = "Success", message>>

\* the event the match on a received message forwards to the prover, <<>>
\* for none
EventOf(m) ==
    CASE m[1] = "Notify"       -> <<"NewWork", m[3], m[2]>>
      [] m[1] = "SubmitResult" -> SubmitResultEvent(m[2], m[3])
      [] OTHER                 -> <<>>

\* the match on Some(Ok(message)): where the task goes, and what it starts
\* to forward
OnMessage(m) ==
    IF m[1] = "AuthorizeResult" /\ ~m[2]
    THEN \* Authorization failed: sleep, then break
         /\ pc' = "Backoff"
         /\ pending' = pending
    ELSE IF EventOf(m) # <<>>
    THEN \* prover_sender.send(event).await
         /\ pc' = "Forward"
         /\ pending' = EventOf(m)
    ELSE /\ pc' = pc
         /\ pending' = pending

\* a None arm that logs and stays in the loop
OnNoneStay == pc' = pc

\* a None arm that breaks without the sleep
OnNoneNoSleep == pc' = "Connecting"

\* the None arm: Disconnected from server, sleep, then break
OnNone == pc' = "Backoff"

\* framed.next() in the errored state: the stream ends (None) once, and the
\* read state goes to paused
FramedErrored ==
    /\ pc = "Select"
    /\ fErrored
    /\ fReadable' = FALSE
    /\ fErrored' = FALSE
    /\ rx' = Rx("end", <<>>, FALSE)
    /\ OnNone
    /\ UNCHANGED <<codecVars, cfgVars, connected, conn, chanVars, sockVars, rbuf, fEof, wbuf, tx,
                   proverVars, dropped>>

\* framed.next() with a readable buffer: decode, or decode_eof after the
\* remote closed
FramedDecode ==
    /\ pc = "Select"
    /\ ~fErrored
    /\ fReadable
    /\ \E o \in Outcomes(Decode(rbuf).res) :
        LET d == Decode(rbuf) IN
        CASE o = "msg" ->
                /\ rbuf' = d.src
                /\ rx' = Rx("msg", d.msg, FALSE)
                /\ OnMessage(d.msg)
                /\ UNCHANGED <<connected, fEof, fReadable, fErrored, wbuf>>
          [] o = "err" ->
                \* Some(Err(e)): the arm logs a warning
                /\ rbuf' = d.src
                /\ fErrored' = TRUE
                /\ rx' = Rx("err", <<>>, Len(rbuf) >= 4 /\ TooLong(U32LE(rbuf)))
                /\ UNCHANGED <<pc, connected, fEof, fReadable, wbuf, pending>>
          [] o = "none" /\ ~fEof ->
                \* no frame yet: go and read
                /\ fReadable' = FALSE
                /\ UNCHANGED <<pc, connected, rbuf, fEof, fErrored, wbuf, pending, rx>>
          [] o = "none" /\ fEof /\ rbuf = <<>> ->
                \* decode_eof on an empty buffer: the stream ends
                /\ fReadable' = FALSE
                /\ rx' = Rx("end", <<>>, FALSE)
                /\ OnNone
                /\ UNCHANGED <<connected, rbuf, fEof, fErrored, wbuf, pending>>
          [] o = "none" /\ fEof /\ rbuf # <<>> ->
                \* decode_eof: bytes remaining on stream
                /\ fErrored' = TRUE
                /\ rx' = Rx("err", <<>>, FALSE)
                /\ UNCHANGED <<pc, connected, rbuf, fEof, fReadable, wbuf, pending>>
          [] o = "panic" ->
                \* the task unwinds; framed and the socket are dropped
                /\ pc' = "Panicked"
                /\ connected' = FALSE
                /\ NewFramed
                /\ UNCHANGED <<pending, rx>>
    /\ UNCHANGED <<codecVars, cfgVars, conn, chanVars, sockVars, tx, events, proverOpen, dropped>>

\* framed.next() with nothing to decode reads the socket: the bytes the
\* remote has sent arrive in the read buffer
FramedRead(chunk) ==
    /\ pc = "Select"
    /\ ~fErrored
    /\ ~fReadable
    /\ ~remoteClosed
    /\ framesSent < MaxFrames
    /\ framesSent' = framesSent + 1
    /\ rbuf' = rbuf \o chunk
    /\ fEof' = FALSE
    /\ fReadable' = TRUE
    /\ UNCHANGED <<codecVars, cfgVars, pc, connected, conn, chanVars, remoteClosed, fErrored, wbuf,
                   tx, proverVars, rx, dropped>>

\* framed.next() with nothing to decode reads the socket: 0 bytes, the remote
\* has closed the connection
FramedReadEof ==
    /\ pc = "Select"
    /\ ~fErrored
    /\ ~fReadable
    /\ remoteClosed' = TRUE
    /\ IF fEof
       THEN \* a second read of 0 bytes: the stream ends
            /\ rx' = Rx("end", <<>>, FALSE)
            /\ OnNone
            /\ UNCHANGED <<fEof, fReadable>>
       ELSE /\ fEof' = TRUE
            /\ fReadable' = TRUE
            /\ UNCHANGED <<pc, rx>>
    /\ UNCHANGED <<codecVars, cfgVars, connected, conn, chanVars, framesSent, rbuf, fErrored, wbuf,
                   tx, proverVars, dropped>>

\* a forwarding step that gives the connection up when the prover has
\* dropped its receiver
ForwardOrBreak ==
    /\ pc = "Forward"
    /\ IF proverOpen
       THEN /\ Len(events) < EventCap
            /\ events' = Append(events, pending)
            /\ pc' = "Select"
       ELSE /\ events' = events
            /\ pc' = "Backoff"
    /\ pending' = <<>>
    /\ UNCHANGED <<codecVars, cfgVars, connected, conn, chanVars, sockVars, framedVars, tx,
                   proverOpen, rx, dropped>>

\* prover_sender.send(event).await returns: the event is in the channel, or
\* the prover has dropped its receiver (Err, logged)
Forward ==
    /\ pc = "Forward"
    /\ IF proverOpen
       THEN /\ Len(events) < EventCap
            /\ events' = Append(events, pending)
       ELSE events' = events
    /\ pending' = <<>>
    /\ pc' = "Select"
    /\ UNCHANGED <<codecVars, cfgVars, connected, conn, chanVars, sockVars, framedVars, tx,
                   proverOpen, rx, dropped>>

\* sleep(5 s) is over; after the inner loop, break drops framed and the socket
SleepDone ==
    /\ pc = "Backoff"
    /\ pc' = "Connecting"
    /\ connected' = FALSE
    /\ NewFramed
    /\ NewSocket
    /\ UNCHANGED <<codecVars, cfgVars, conn, chanVars, framesSent, tx, proverVars, rx, dropped>>

(***************************************************************************)
(* The environment: the remote endpoint, the prover, the application        *)
(***************************************************************************)
\* what one read of the socket returns: the frames the remote endpoint
\* sends, whole, two of them at once, and one of them in two pieces
RemoteChunks ==
    { <<3, 0, 0, 0, 1, 1, 0>>,
      <<3, 0, 0, 0, 1, 1, 0, 3, 0, 0, 0, 1, 0, 0>>,
      <<8, 0, 0, 0, 2, 91, 34, 88, 34, 44, 55, 93, 8, 0, 0, 0, 2, 91, 34, 89, 34, 44, 57, 93>>,
      <<3, 0, 0, 0, 1, 0, 0>>,
      <<6, 0, 0, 0, 1, 0, 1, 34, 114, 34>>,
      <<8, 0, 0, 0, 2, 91, 34, 88, 34, 44, 55, 93>>,
      <<6, 0, 0, 0, 4, 0, 0, 0, 0, 0>>,
      <<15, 0, 0, 0, 4, 2, 0, 0, 0, 1, 1, 0, 0, 0, 0, 0, 0, 0, 114>>,
      <<6, 0, 0, 0, 4, 3, 0, 0, 0, 0>>,
      <<1, 0, 0, 0, 5>>,
      <<2, 0, 0, 0, 1, 1>>,
      <<1, 0, 0, 8>>,
      <<0, 0, 0, 0>>,
      <<6, 0>>,
      <<0, 0, 4, 0, 0, 0, 0, 0>> }

\* the prover takes an event from its channel
ProverRecv ==
    /\ proverOpen
    /\ events # <<>>
    /\ events' = Tail(events)
    /\ UNCHANGED <<codecVars, cfgVars, pc, connected, conn, chanVars, sockVars, framedVars, tx,
                   proverOpen, pending, rx, dropped>>

\* the prover drops its receiver
ProverClose ==
    /\ proverOpen
    /\ proverOpen' = FALSE
    /\ events' = <<>>
    /\ UNCHANGED <<codecVars, cfgVars, pc, connected, conn, chanVars, sockVars, framedVars, tx,
                   pending, rx, dropped>>

TaskNext ==
    \/ ConnectOk
    \/ ConnectErr
    \/ ConnectTimeout
    \/ SendAuthorization
    \/ Drain
    \/ RecvOutbound
    \/ FramedErrored
    \/ FramedDecode
    \/ \E chunk \in RemoteChunks : FramedRead(chunk)
    \/ FramedReadEof
    \/ Forward
    \/ SleepDone

Init == CodecInit /\ CodecIdle /\ ClientInit

Next ==
    \/ TaskNext
    \/ \E m \in Outbound : SendCalls < MaxEnqueue /\ ProducerSend(m)
    \/ ProverRecv
    \/ ProverClose

Spec == Init /\ [][Next]_vars

\* the codec on its own: the client is at rest
CodecStart == CodecInit /\ ClientInit

CodecSpec == CodecStart /\ [][CodecNext]_vars

(***************************************************************************)
(* The outbound channel at its capacity                                     *)
(***************************************************************************)
\* send calls the application makes beyond the backlog
MaxExtra == 3

\* rate reports the application has sent while no connection could be made:
\* one short of the channel's capacity
Backlog ==
    [i \in 1..(QueueCapacity - 1) |-> [msg |-> <<"ProofRate", 7>>, id |-> i, stale |-> TRUE,
                                      late |-> FALSE]]

BackpressureInit == CodecInit /\ CodecIdle /\ ClientStart(Backlog)

\* the task connects, authorizes, drains and takes outbound messages; the
\* remote endpoint sends nothing
BackpressureNext ==
    \/ ConnectOk
    \/ SendAuthorization
    \/ Drain
    \/ RecvOutbound
    \/ \E m \in Outbound : SendCalls < Len(Backlog) + MaxExtra /\ ProducerSend(m)
    \/ ProducerResume

BackpressureSpec == BackpressureInit /\ [][BackpressureNext]_vars

(***************************************************************************)
(* Properties of the connection manager                                     *)
(***************************************************************************)
\* C1: a message that entered the outbound queue while the client had no
\* established connection is never handed to the socket: it is not the message
\* written last, it is not in the write buffer, and once the drain is over and
\* the task selects, none is left in the queue.
C1_StaleDiscarded ==
    /\ tx.from = "queue" => ~tx.stale
    /\ \A i \in 1..Len(wbuf) : wbuf[i].from = "queue" => ~wbuf[i].stale
    /\ pc \in {"Select", "Forward"} => \A i \in 1..Len(queue) : ~queue[i].stale

\* C1: the drain has discarded a message enqueued without a connection, and a
\* message enqueued after it has been written to the socket
C1_Witness ==
    \E d \in dropped : d.stale /\ tx.from = "queue" /\ tx.id > d.id

\* C3: on one connection the queued messages are written in the order they
\* entered the queue: each message written entered after the one written
\* before it, and what is still queued entered after all that was written.
C3_OutboundFifo ==
    /\ tx.from = "queue" => tx.id > tx.prevId
    /\ \A i \in 1..Len(queue) : \A j \in 1..Len(queue) : i < j => queue[i].id < queue[j].id
    /\ (queue # <<>> /\ tx.from = "queue") => Head(queue).id > tx.id
    /\ \A i \in 1..Len(wbuf) :
        wbuf[i].from = "queue" =>
            /\ wbuf[i].id > wbuf[i].prevId
            /\ queue # <<>> => Head(queue).id > wbuf[i].id

\* C3: two queued messages have been written on one connection, after the
\* stream yielded an inbound message on it
C3_Witness ==
    /\ tx.from = "queue"
    /\ tx.prevId > 0
    /\ rx.conn = tx.conn
    /\ rx.res = "msg"

\* C4: the outbound queue never holds more than 1024 messages, permits are
\* never handed out beyond the capacity, and a producer waits only while the
\* channel is full.
C4_Backpressure ==
    /\ Len(queue) <= QueueCapacity
    /\ Len(queue) + Len(granted) <= QueueCapacity
    /\ waiters # <<>> => Len(queue) + Len(granted) = QueueCapacity

\* C4: 1024 messages are pending and a producer that tried to send one more
\* is waiting
C4_Witness ==
    /\ Len(queue) = QueueCapacity
    /\ waiters # <<>>

\* C2: the step in which the stream yields a SubmitResult starts to forward
\* exactly the Result event (code = Success, reason) when the code is not
\* ProxyException, and forwards nothing when it is; a Result event is never
\* started without such a frame, and the event channel only ever receives
\* the one event being forwarded.
C2_SubmitResultForwarding ==
    [][ /\ (rx' # rx /\ rx'.res = "msg" /\ rx'.msg[1] = "SubmitResult") =>
            IF rx'.msg[2] = "ProxyException"
            THEN pending' = pending /\ events' = events /\ pc' = "Select"
            ELSE /\ rx'.msg[2] \in {"Success", "InvalidProof", "Stale"}
                 /\ pending' = <<"Result", rx'.msg[2] = "Success", rx'.msg[3]>>
                 /\ events' = events
                 /\ pc' = "Forward"
        /\ (pending' # pending /\ pending' # <<>> /\ pending'[1] = "Result") =>
            /\ rx' # rx
            /\ rx'.res = "msg"
            /\ rx'.msg[1] = "SubmitResult"
            /\ rx'.msg[2] # "ProxyException"
        /\ (pc = "Forward" /\ pc' # "Forward") =>
            /\ pending' = <<>>
            /\ events' = IF proverOpen THEN Append(events, pending) ELSE events
        /\ Len(events') > Len(events) => pc = "Forward"
      ]_vars

\* C2: the prover's channel holds the Result event of a SubmitResult
C2_Witness ==
    /\ events # <<>>
    /\ events[1][1] = "Result"
    /\ rx.res = "msg"
    /\ rx.msg[1] = "SubmitResult"
    /\ events[1] = <<"Result", rx.msg[2] = "Success", rx.msg[3]>>

\* C9: after a payload decode error the connection is not given up: the
\* stream does not end, and the task does not back off, unless the remote
\* has closed.
C9_PayloadErrorNotFatal ==
    ~(rx.prev = "err" /\ rx.res = "end" /\ ~rx.eof /\ ~rx.closed /\ pc = "Backoff")

\* the stream has yielded the error of a declared length above the limit on
\* the current connection
OversizeSeen == connected /\ rx.conn = conn /\ rx.res = "err" /\ rx.over

\* C10: once the stream has yielded the error of a declared length above
\* 128 MiB, the task reads and decodes nothing more on that connection: the
\* next poll of the stream ends it, the task backs off, drops the connection
\* and returns to Connecting.
C10_FramingErrorFatal ==
    [][ /\ OversizeSeen =>
            /\ pc = "Select" /\ fErrored
            /\ framesSent' = framesSent
            /\ rbuf' = rbuf
            /\ rx' # rx => (rx'.res = "end" /\ pc' = "Backoff")
        /\ (connected /\ rx.conn = conn /\ rx.res = "end" /\ rx.prev = "over") =>
            /\ pc = "Backoff"
            /\ framesSent' = framesSent
            /\ pc' = "Backoff" \/ (pc' = "Connecting" /\ ~connected')
      ]_vars

\* C10: the task is back in Connecting, without a connection, after the
\* stream of the last one ended on a declared length above the limit
C10_Witness ==
    /\ pc = "Connecting"
    /\ ~connected
    /\ rx.res = "end"
    /\ rx.prev = "over"

\* C11: the background task never exits or aborts, whatever the connect
\* outcomes and whatever bytes the remote endpoint sends: it is always in the
\* connect / authorize / select / back-off loop.
C11_NeverTerminates == pc # "Panicked"

\* the stream yields a Notify frame in this step
NotifyDecoded == rx' # rx /\ rx'.res = "msg" /\ rx'.msg[1] = "Notify"

\* C12: every Notify(workTemplate, poolTarget) frame decoded on a connection
\* produces exactly one NewWork event carrying that poolTarget and
\* workTemplate: the frame is decoded only when no event is being forwarded,
\* its event is the one the task forwards next, and the prover's channel
\* grows only by the forwarded event, at its tail. No other frame is decoded
\* before the event is sent, so events are emitted in arrival order. When the
\* forwarding fails the task goes back to the select loop on the same
\* connection.
C12_WorkForwarding ==
    [][ /\ NotifyDecoded =>
            /\ pc = "Select" /\ pending = <<>>
            /\ pc' = "Forward"
            /\ pending' = <<"NewWork", rx'.msg[3], rx'.msg[2]>>
            /\ events' = events
        /\ pc = "Forward" =>
            /\ rx' = rx /\ rbuf' = rbuf
            /\ pending' # pending =>
                /\ pending' = <<>>
                /\ events' = IF proverOpen THEN Append(events, pending) ELSE events
                /\ pc' = "Select" /\ connected' = connected /\ conn' = conn
        /\ Len(events') > Len(events) =>
            /\ pc = "Forward"
            /\ events' = Append(events, pending)
      ]_vars

\* C12: two Notify frames arrived in one read; the event of the first is in
\* the prover's channel and the event of the second is being forwarded
C12_Witness ==
    /\ Len(events) = 1
    /\ events[1][1] = "NewWork" /\ events[1][2] = 7 /\ events[1][3] = 88
    /\ pc = "Forward"
    /\ pending[1] = "NewWork" /\ pending[2] = 9 /\ pending[3] = 89
    /\ rx.res = "msg" /\ rx.prev = "msg"
    /\ rx.msg[1] = "Notify" /\ rx.msg[2] = 89 /\ rx.msg[3] = 9


\* C13: no message taken from the outbound queue is written to the wire of a
\* connection before that connection has received AuthorizeResult with
\* success: when the last message written on the current connection came
\* from the queue, the stream of that connection has yielded a successful
\* AuthorizeResult.
C13_HandshakeGating ==
    (tx.from = "queue" /\ tx.conn = conn) => (rx.conn = conn /\ rx.authed)

\* C14: an AuthorizeResult received on a connection that has already
\* received a successful one causes no transition, whatever its flag: when
\* the last message the stream yielded on the current connection is an
\* AuthorizeResult that is not the first successful one, the task is in the
\* select loop on that connection, neither backing off nor reconnecting.
C14_RepeatedAuthorizeResult ==
    ( /\ rx.conn = conn
      /\ rx.res = "msg"
      /\ rx.msg[1] = "AuthorizeResult"
      /\ rx.authed
      /\ ~rx.msg[2] ) => (connected /\ pc \in {"Select", "Forward"})

(***************************************************************************)
(* The identity the client is constructed with                              *)
(***************************************************************************)
\* Client::init takes each of account, worker and address as an Option
ConfigInit ==
    /\ account \in {<<>>, <<<<97>>>>}
    /\ worker \in {<<>>, <<<<119>>>>}
    /\ address \in {<<>>, <<<<100>>>>}
    /\ CodecInit /\ CodecIdle
    /\ ClientState(<<>>)

\* the remote endpoint accepts connections, sends nothing and closes
ConfigNext ==
    \/ ConnectOk
    \/ SendAuthorization
    \/ Drain
    \/ RecvOutbound
    \/ FramedDecode
    \/ FramedReadEof
    \/ SleepDone
    \/ \E m \in Outbound : SendCalls < MaxEnqueue /\ ProducerSend(m)

ConfigSpec == ConfigInit /\ [][ConfigNext]_vars

\* the caller has configured a worker label and an identity
Configured == worker # <<>> /\ (account # <<>> \/ address # <<>>)

\* the Authorize message of the configuration
ConfiguredAuthorize ==
    <<"Authorize", IF account # <<>> THEN account[1] ELSE address[1], worker[1], <<>>, VERSION>>

\* C15: with a worker label and an identity configured, on every established
\* connection the task itself hands exactly one message to the writer, in
\* the step that follows the connect and before any message of the queue:
\* Authorize with the account when one is configured and else the address
\* string, the worker label, an empty password and the protocol version. It
\* is the first frame written on the connection.
C15_AuthorizeFirst ==
    [][ Configured =>
        /\ (pc = "Authorize" /\ pc' # pc) =>
            /\ pc' = "Drain"
            /\ \/ /\ tx' # tx /\ tx'.conn = conn /\ tx'.from = "task"
                  /\ tx'.msg = ConfiguredAuthorize
                  /\ wbuf' = wbuf
               \/ /\ tx' = tx
                  /\ Len(wbuf') = 1 /\ wbuf'[1].from = "task"
                  /\ wbuf'[1].msg = ConfiguredAuthorize
        /\ (pc' = "Authorize" /\ pc # pc') => (pc = "Connecting" /\ conn' = conn + 1)
        /\ tx' # tx =>
            /\ tx'.conn = conn
            /\ tx'.from = "task" <=> pc = "Authorize"
            /\ tx.conn # conn => tx'.from = "task"
        /\ Len(wbuf') > Len(wbuf) =>
            (wbuf'[Len(wbuf')].from = "task" <=> pc = "Authorize")
      ]_vars

\* C15: no account is configured, and the Authorize message carrying the
\* address string is the frame written on the second connection
C15_Witness ==
    /\ account = <<>> /\ Configured
    /\ conn = 2
    /\ pc = "Select"
    /\ tx.conn = conn /\ tx.from = "task"
    /\ tx.msg = <<"Authorize", <<100>>, <<119>>, <<>>, VERSION>>

\* the stream yields an AuthorizeResult without success in this step
AuthorizeRejected ==
    /\ rx' # rx /\ rx'.res = "msg"
    /\ rx'.msg[1] = "AuthorizeResult" /\ ~rx'.msg[2]

\* the stream ends in this step
StreamEnded == rx' # rx /\ rx'.res = "end"

\* C16: a failed or timed-out connect, an AuthorizeResult without success and
\* the end of the stream each take the task to the back-off; while it backs
\* off the task neither reads nor writes, and the back-off ends once, with
\* the connection dropped, in a new connect attempt. No connect attempt is
\* reached in any other way: every entry to Connecting is the end of a
\* back-off.
C16_BackoffBeforeReconnect ==
    [][ /\ (pc = "Connecting" /\ pc' # pc) => pc' \in {"Authorize", "Backoff"}
        /\ (pc = "Connecting" /\ pc' = "Authorize") => (connected' /\ conn' = conn + 1)
        /\ AuthorizeRejected => (pc = "Select" /\ pc' = "Backoff")
        /\ StreamEnded => (pc = "Select" /\ pc' = "Backoff")
        /\ pc = "Backoff" =>
            /\ tx' = tx /\ rx' = rx /\ framesSent' = framesSent
            /\ conn' = conn
            /\ pc' = "Backoff" \/ (pc' = "Connecting" /\ ~connected')
        /\ (pc' = "Connecting" /\ pc # pc') => pc = "Backoff"
      ]_vars

\* C16: the task is in a new connect attempt, without a connection, after the
\* back-off that followed an AuthorizeResult without success
C16_Witness ==
    /\ pc = "Connecting"
    /\ ~connected
    /\ rx.conn = conn /\ rx.res = "msg"
    /\ rx.msg[1] = "AuthorizeResult" /\ ~rx.msg[2]

\* framed.send fails in this step: its frame stays in the write buffer
WriteFailed == Len(wbuf') > Len(wbuf)

\* the positions of the task in which it holds a connection
OnConnection == {"Authorize", "Drain", "Select", "Forward"}

\* C17: a failed write of the Authorize message or of a queue message is not
\* fatal: the task goes on to its next step on the same connection, without
\* back-off, and a connection on which a write has failed is left only when
\* the stream ends or yields an AuthorizeResult without success.
C17_WriteFailureNonFatal ==
    [][ /\ WriteFailed =>
            /\ connected' /\ conn' = conn
            /\ pc' = IF pc = "Authorize" THEN "Drain" ELSE "Select"
        /\ (wbuf # <<>> /\ pc \in OnConnection /\ pc' \notin OnConnection) =>
            /\ pc' = "Backoff"
            /\ StreamEnded \/ AuthorizeRejected
      ]_vars

(***************************************************************************)
(* Further properties of the codec                                          *)
(***************************************************************************)
\* C18: decode is total on a buffer that holds a whole frame of a declared
\* length of at most 128 MiB, whatever the payload: the call returns a
\* message or an error, never aborts, and has removed exactly the 4 + length
\* bytes of the frame.
C18_DecodeTotal ==
    ( /\ last.res # "never"
      /\ Len(last.before) >= 4
      /\ ~DeclaresOver(last.before)
      /\ ~DeclaresLimit(last.before)
      /\ Len(last.before) >= 4 + U32LE(last.before) )
    => /\ last.res \in {"msg", "err"}
       /\ last.after = Drop(last.before, 4 + U32LE(last.before))

\* C19: encode appends one frame to the output buffer: the bytes that were
\* in the buffer before the call are unchanged, and the four bytes after
\* them are the little-endian length of the id byte and the payload of the
\* message.
C19_EncodeAppends ==
    (item # <<>> /\ dst # <<>>) =>
        /\ IsPrefix(prior, dst)
        /\ Len(dst) = Len(prior) + 4 + 1 + Len(EncodePayload(item))
        /\ U32LE(Drop(dst, Len(prior))) = 1 + Len(EncodePayload(item))

(***************************************************************************)
(* Both bounded channels at their capacity                                  *)
(***************************************************************************)
\* send calls the application makes beyond the capacity of the outbound
\* channel
MaxBlocked == 1

\* one read of the socket that returns two Notify frames
WorkChunks ==
    { <<8, 0, 0, 0, 2, 91, 34, 88, 34, 44, 55, 93, 8, 0, 0, 0, 2, 91, 34, 89, 34, 44, 57, 93>> }

\* the remote endpoint sends work; the application takes events from the
\* prover's channel and sends on the outbound channel while the task is
\* forwarding an event
MultiplexNext ==
    \/ ConnectOk
    \/ SendAuthorization
    \/ Drain
    \/ \E chunk \in WorkChunks : FramedRead(chunk)
    \/ FramedDecode
    \/ Forward
    \/ ProverRecv
    \/ \E m \in Outbound :
        /\ pc = "Forward"
        /\ SendCalls < QueueCapacity + MaxBlocked
        /\ ProducerSend(m)

MultiplexSpec == Init /\ [][MultiplexNext]_vars

\* C20: the task is never blocked in prover_sender.send on a full event
\* channel while a send call of the application is blocked on the full
\* outbound channel.
C20_NoMutualBlocking ==
    ~( /\ pc = "Forward"
       /\ proverOpen
       /\ Len(events) = EventCap
       /\ Len(queue) = QueueCapacity
       /\ waiters # <<>> )

(***************************************************************************)
(* Send calls that waited through a reconnect                               *)
(***************************************************************************)
\* C21: the message of a send call that was made while the client had no
\* connection and that had to wait for capacity in the full outbound channel
\* is never written to the wire: it is not the message written last and it
\* is not in the write buffer.
C21_BlockedStaleDiscarded ==
    /\ tx.from = "queue" => ~tx.late
    /\ \A i \in 1..Len(wbuf) : wbuf[i].from = "queue" => ~wbuf[i].late

=============================================================================
